---- MODULE Spec2Model ----
(***************************************************************************)
(* Kelly, the AI scientist: the response-generation pipeline of app.py.    *)
(*                                                                         *)
(* Two state machines share this module.                                   *)
(*   SpecExtract  the local path's text pipeline on one raw generation:    *)
(*                extract_poem_from_generated, then the shape repair of    *)
(*                generate_with_huggingface.                               *)
(*   Spec         the chat session: the sidebar settings, the router       *)
(*                get_kelly_reply, the two generators and the two button   *)
(*                handlers that append to st.session_state.messages.       *)
(*                                                                         *)
(* Text.  A Python str is modelled as a sequence of chunks [s, n]: the     *)
(* string s repeated n times.  A chunk is either white space (" " or a     *)
(* line feed), a separator (":" or "-"), a role name, or letters of a      *)
(* word; a chunk of more than one character has n = 1.  The str the        *)
(* sequence denotes is the concatenation of its chunks, and every operator *)
(* below computes on that concatenation what the Python call computes.     *)
(***************************************************************************)
EXTENDS Integers, Sequences, FiniteSets, TLC

VARIABLES
    generated,      \* SpecExtract: out[0]["generated_text"], the raw generation
    poem,           \* SpecExtract: the value of extract_poem_from_generated
    reply,          \* SpecExtract: the value generate_with_huggingface returns
    pc,             \* SpecExtract: "gen" -> "extracted" -> "done"; "session" under Spec
    messages,       \* st.session_state.messages: the log of [role, text] turns
    origin,         \* history: for each turn of messages, what produced it
    use_openai,     \* the sidebar toggle
    api_key,        \* whether os.getenv("OPENAI_API_KEY") is truthy
    gen_pipeline,   \* the module-level pipeline slot: "None" or "pipeline"
    hf_available,   \* whether `from transformers import ...` succeeded
    OpenAI,         \* "client" when `from openai import OpenAI` succeeded, else "None"
    ev              \* history: what the last script run did

vars == <<generated, poem, reply, pc, messages, origin, use_openai, api_key,
          gen_pipeline, hf_available, OpenAI, ev>>

(***************************************************************************)
(* Program constants.                                                      *)
(***************************************************************************)
MinBlockLines == 3      \* range(start + 3, ...)
BlockEndSpan == 9       \* min(start + 9, len(lines))
MaxStarts == 6          \* min(6, max(1, len(lines)))
MinAvgLen == 10         \* 10 <= avg_len
MaxAvgLen == 120        \* avg_len <= 120
FallbackLines == 8      \* lines[:8]
RawCut == 1000          \* candidate[:1000]
MinPoemLines == 3       \* len(poem_lines) < 3
MinWords == 6           \* len(words) < 6
MaxPoemLines == 8       \* len(poem_lines) > 8

(***************************************************************************)
(* Bounds of the model.                                                    *)
(***************************************************************************)
MaxShort == 3           \* raw texts of up to MaxShort lines: every sequence of shapes
MaxLines == 10          \* raw texts of up to MaxLines lines: two shapes, k of one then the other
MaxLog == 4             \* the log holds at most MaxLog turns

(***************************************************************************)
(* Arithmetic helpers.                                                     *)
(***************************************************************************)
Min(a, b) == IF a <= b THEN a ELSE b
Max(a, b) == IF a >= b THEN a ELSE b
SetMax(S) == CHOOSE x \in S : \A y \in S : y <= x

(***************************************************************************)
(* Chunks and the str operations the code uses.                            *)
(***************************************************************************)
Chunk(s, n) == [s |-> s, n |-> n]
SP == Chunk(" ", 1)
NL == Chunk("\n", 1)

\* str.isspace() of the characters of a chunk
IsSpace(c) == c.s \in {" ", "\n"}

\* len() of the str a chunk denotes
ChunkLen(c) == Len(c.s) * c.n

\* len(text)
RECURSIVE TextLen(_)
TextLen(t) == IF t = <<>> THEN 0 ELSE ChunkLen(Head(t)) + TextLen(Tail(t))

\* the letters of the chunks of more than one character that a slice may cut
Spelling(s) ==
    CASE s = "User"   -> <<"U", "s", "e", "r">>
      [] s = "SYSTEM" -> <<"S", "Y", "S", "T", "E", "M">>
      [] s = "Kelly"  -> <<"K", "e", "l", "l", "y">>
      [] s = "kelly"  -> <<"k", "e", "l", "l", "y">>
      [] s = "noise"  -> <<"n", "o", "i", "s", "e">>

\* the first k characters of a chunk, 0 < k < ChunkLen(c)
CutChunk(c, k) ==
    IF Len(c.s) = 1 THEN <<Chunk(c.s, k)>>
    ELSE [i \in 1..k |-> Chunk(Spelling(c.s)[i], 1)]

\* text[:k]
RECURSIVE Take(_, _)
Take(t, k) ==
    IF t = <<>> \/ k <= 0 THEN <<>>
    ELSE IF ChunkLen(Head(t)) <= k
         THEN <<Head(t)>> \o Take(Tail(t), k - ChunkLen(Head(t)))
         ELSE CutChunk(Head(t), k)

\* str.lstrip(), str.rstrip(), str.strip()
RECURSIVE LStrip(_)
LStrip(t) == IF t # <<>> /\ IsSpace(Head(t)) THEN LStrip(Tail(t)) ELSE t
RECURSIVE RStrip(_)
RStrip(t) ==
    IF t # <<>> /\ IsSpace(t[Len(t)]) THEN RStrip(SubSeq(t, 1, Len(t) - 1)) ELSE t
Strip(t) == RStrip(LStrip(t))

\* the least index of S, or otherwise when S is empty
FirstOf(S, otherwise) ==
    IF S = {} THEN otherwise ELSE CHOOSE i \in S : \A j \in S : i <= j

LineFeeds(t) == {i \in 1..Len(t) : t[i].s = "\n"}
Spaces(t) == {i \in 1..Len(t) : IsSpace(t[i])}

\* str.splitlines(): a sequence of texts; a final line feed opens no further line
RECURSIVE SplitLines(_)
SplitLines(t) ==
    IF t = <<>> THEN <<>>
    ELSE LET i == FirstOf(LineFeeds(t), Len(t) + 1)
         IN  IF i > Len(t) THEN <<t>>
             ELSE LET more == IF t[i].n > 1 THEN <<Chunk("\n", t[i].n - 1)>> ELSE <<>>
                  IN  <<SubSeq(t, 1, i - 1)>> \o SplitLines(more \o SubSeq(t, i + 1, Len(t)))

\* str.split(): the maximal runs of chunks that are not white space
RECURSIVE Words(_)
Words(t) ==
    LET u == LStrip(t)
    IN  IF u = <<>> THEN <<>>
        ELSE LET k == FirstOf(Spaces(u), Len(u) + 1)
             IN  <<SubSeq(u, 1, k - 1)>> \o Words(SubSeq(u, k, Len(u)))

\* sep.join(parts)
RECURSIVE Join(_, _)
Join(sep, parts) ==
    IF parts = <<>> THEN <<>>
    ELSE IF Len(parts) = 1 THEN parts[1]
    ELSE parts[1] \o <<sep>> \o Join(sep, Tail(parts))

\* [ln for ln in text.splitlines() if ln.strip()]
HasText(ln) == Strip(ln) # <<>>
NonEmptyLines(t) == SelectSeq(SplitLines(t), HasText)

\* the number of non-empty lines of a text
LineCount(t) == Len(NonEmptyLines(t))

(***************************************************************************)
(* The regular expressions, both with re.IGNORECASE.                       *)
(***************************************************************************)
Lower(s) ==
    CASE s \in {"User", "USER", "user"} -> "user"
      [] s \in {"System", "SYSTEM", "system"} -> "system"
      [] s \in {"Kelly", "KELLY", "kelly"} -> "kelly"
      [] OTHER -> s

\* re.match(r"^(User|System|Kelly)\s*[:\-]\s*", ln, flags=re.IGNORECASE)
IsRoleLabel(ln) ==
    /\ ln # <<>>
    /\ Lower(ln[1].s) \in {"user", "system", "kelly"}
    /\ LET rest == LStrip(Tail(ln))
       IN  rest # <<>> /\ rest[1].s \in {":", "-"}

\* a match of re.escape("Kelly:") begins at chunk i
MarkerAt(t, i) == i < Len(t) /\ Lower(t[i].s) = "kelly" /\ t[i + 1].s = ":"
MarkerStarts(t) == {i \in 1..Len(t) : MarkerAt(t, i)}
HasMarker(t) == MarkerStarts(t) # {}

\* re.split(rf"{re.escape(prompt_tail_marker)}\s*", text, flags=re.IGNORECASE)[-1]
LastPart(t) ==
    LET i == SetMax(MarkerStarts(t))
        more == IF t[i + 1].n > 1 THEN <<Chunk(":", t[i + 1].n - 1)>> ELSE <<>>
    IN  LStrip(more \o SubSeq(t, i + 2, Len(t)))

(***************************************************************************)
(* extract_poem_from_generated                                             *)
(***************************************************************************)
\* lines 94-102: the text after the last marker, else the whole text; stripped
Candidate(text) == IF HasMarker(text) THEN Strip(LastPart(text)) ELSE Strip(text)

\* line 105: [ln.strip() for ln in candidate.splitlines() if ln.strip()]
StrippedLines(candidate) ==
    LET ls == NonEmptyLines(candidate)
    IN  [i \in 1..Len(ls) |-> Strip(ls[i])]

\* line 109: the lines that are no role label
IsContent(ln) == ~IsRoleLabel(ln)
ContentLines(candidate) == SelectSeq(StrippedLines(candidate), IsContent)

RECURSIVE SumLen(_)
SumLen(ls) == IF ls = <<>> THEN 0 ELSE TextLen(Head(ls)) + SumLen(Tail(ls))

\* lines 116-117: 10 <= sum(len(l) for l in block) / max(1, len(block)) <= 120
AvgInRange(block) ==
    LET d == Max(1, Len(block))
    IN  MinAvgLen * d <= SumLen(block) /\ SumLen(block) <= MaxAvgLen * d

\* lines 112-114: the (start, end) pairs the two loops visit; block = lines[start:end]
ScanStarts(n) == 0..(Min(MaxStarts, Max(1, n)) - 1)
ScanEnds(start, n) == (start + MinBlockLines)..Min(start + BlockEndSpan, n)
Block(lines, start, end) == SubSeq(lines, start + 1, end)
Hits(lines) ==
    {h \in UNION {{<<s, e>> : e \in ScanEnds(s, Len(lines))} : s \in ScanStarts(Len(lines))} :
        AvgInRange(Block(lines, h[1], h[2]))}

\* a scan that tries the longest block of a start first
BeforeLongestFirst(h, g) == h[1] < g[1] \/ (h[1] = g[1] /\ h[2] >= g[2])

\* the order of the loops: the smallest start, then the smallest end
Before(h, g) == h[1] < g[1] \/ (h[1] = g[1] /\ h[2] <= g[2])
FirstHit(lines) == CHOOSE h \in Hits(lines) : \A g \in Hits(lines) : Before(h, g)

extract_poem_from_generated(text) ==
    LET candidate == Candidate(text)
        lines == ContentLines(candidate)
    IN  IF Hits(lines) # {}
        THEN LET h == FirstHit(lines) IN Join(NL, Block(lines, h[1], h[2]))
        ELSE IF lines # <<>>
        THEN Join(NL, SubSeq(lines, 1, Min(FallbackLines, Len(lines))))
        ELSE Strip(Take(candidate, RawCut))

(***************************************************************************)
(* generate_with_huggingface, lines 156-177: the shape repair.             *)
(***************************************************************************)
Word(s) == <<Chunk(s, 1)>>
Phrase(ws) == Join(SP, [i \in 1..Len(ws) |-> Word(ws[i])])

\* lines 165-167; the dash of the second line is the source's em dash
CannedPoem ==
    Join(NL, << Phrase(<<"A", "quiet", "circuit", "hums,">>),
                Phrase(<<"Data", "echoes,", "not", "feeling", "--", "be", "warned.">>),
                Phrase(<<"Run", "targeted", "tests", "and", "human", "evaluation.">>) >>)

\* lines 169-173
ThreeLines(words) ==
    LET n == Len(words)
        a == SubSeq(words, 1, n \div 3)
        b == SubSeq(words, (n \div 3) + 1, (2 * n) \div 3)
        c == SubSeq(words, ((2 * n) \div 3) + 1, n)
    IN  Strip(Join(SP, a)) \o <<NL>> \o Strip(Join(SP, b)) \o <<NL>> \o Strip(Join(SP, c))

\* a repair that does not cut a long poem
ShapeRepairNoTrim(extracted, raw) ==
    LET poem_lines == NonEmptyLines(extracted)
    IN  IF Len(poem_lines) < MinPoemLines
        THEN LET joined == IF Join(SP, poem_lines) # <<>> THEN Join(SP, poem_lines) ELSE raw
                 words == Words(joined)
             IN  IF Len(words) < MinWords THEN CannedPoem ELSE ThreeLines(words)
        ELSE Join(NL, poem_lines)

\* a repair that splits into three lines from 3 words on
ShapeRepairFewWords(extracted, raw) ==
    LET poem_lines == NonEmptyLines(extracted)
    IN  IF Len(poem_lines) < MinPoemLines
        THEN LET joined == IF Join(SP, poem_lines) # <<>> THEN Join(SP, poem_lines) ELSE raw
                 words == Words(joined)
             IN  IF Len(words) < MinPoemLines THEN CannedPoem ELSE ThreeLines(words)
        ELSE IF Len(poem_lines) > MaxPoemLines
        THEN Join(NL, SubSeq(poem_lines, 1, MaxPoemLines))
        ELSE Join(NL, poem_lines)

ShapeRepair(extracted, raw) ==
    LET poem_lines == NonEmptyLines(extracted)
    IN  IF Len(poem_lines) < MinPoemLines
        THEN LET joined == IF Join(SP, poem_lines) # <<>> THEN Join(SP, poem_lines) ELSE raw
                 words == Words(joined)
             IN  IF Len(words) < MinWords THEN CannedPoem ELSE ThreeLines(words)
        ELSE IF Len(poem_lines) > MaxPoemLines
        THEN Join(NL, SubSeq(poem_lines, 1, MaxPoemLines))
        ELSE Join(NL, poem_lines)

(***************************************************************************)
(* Raw generations: lines drawn from a few shapes, joined by line feeds.   *)
(***************************************************************************)
Short == <<Chunk("a", 1)>>                  \* a one-letter line
Verse == <<Chunk("x", 12)>>                 \* a line of 12 characters
RunOn == <<Chunk("x", 130)>>                \* a line of 130 characters
LineShapes ==
    << <<>>,                                                    \* an empty line
       <<SP>>,                                                  \* white space only
       Short,
       Verse,
       RunOn,
       <<Chunk("User", 1), Chunk(":", 1), SP>> \o Short,        \* "User: a"
       <<Chunk("noise", 1), SP, Chunk("Kelly", 1), Chunk(":", 1)>>,  \* "noise Kelly:"
       <<Chunk("kelly", 1), SP, Chunk("-", 1), SP>> \o Verse,   \* "kelly - xxxxxxxxxxxx"
       <<SP>> \o Verse \o <<SP>> \o Short \o <<SP>>,            \* " xxxxxxxxxxxx a "
       Join(SP, [i \in 1..6 |-> Short]),                        \* "a a a a a a"
       <<Chunk("SYSTEM", 1), SP, Chunk(":", 1), SP>> \o RunOn   \* "SYSTEM : xxx..."
    >>
ShapeIds == 1..Len(LineShapes)

TextOf(ids) == Join(NL, [i \in 1..Len(ids) |-> LineShapes[ids[i]]])

ShortTexts == {TextOf(ids) : ids \in UNION {[1..n -> ShapeIds] : n \in 0..MaxShort}}
LongTexts ==
    {TextOf([i \in 1..n |-> IF i <= k[1] THEN k[2] ELSE k[3]]) :
        n \in (MaxShort + 1)..MaxLines,
        k \in {<<j, s, t>> : j \in 0..MaxLines, s \in ShapeIds, t \in ShapeIds}}
RawTexts == ShortTexts \cup LongTexts

(***************************************************************************)
(* SpecExtract: the local path's pipeline on one raw generation.           *)
(***************************************************************************)
Idle == [op |-> "none"]

InitExtract ==
    /\ generated \in RawTexts
    /\ poem = <<>>
    /\ reply = <<>>
    /\ pc = "gen"
    /\ messages = <<>>
    /\ origin = <<>>
    /\ use_openai = FALSE
    /\ api_key = FALSE
    /\ gen_pipeline = "pipeline"
    /\ hf_available = TRUE
    /\ OpenAI = "None"
    /\ ev = Idle

\* line 156
Extract ==
    /\ pc = "gen"
    /\ poem' = extract_poem_from_generated(generated)
    /\ pc' = "extracted"
    /\ UNCHANGED <<generated, reply, messages, origin, use_openai, api_key,
                   gen_pipeline, hf_available, OpenAI, ev>>

\* lines 158-177
Repair ==
    /\ pc = "extracted"
    /\ reply' = ShapeRepair(poem, generated)
    /\ pc' = "done"
    /\ UNCHANGED <<generated, poem, messages, origin, use_openai, api_key,
                   gen_pipeline, hf_available, OpenAI, ev>>

NextExtract == Extract \/ Repair

SpecExtract == InitExtract /\ [][NextExtract]_vars

(***************************************************************************)
(* The session: generators, router and button handlers.                    *)
(***************************************************************************)
\* the diagnostics the generators return; "(warning)" is the source's warning sign
OpenAIError == Phrase(<<"(warning)", "OpenAI", "API", "error:", "cause">>)             \* line 62
NotInstalled == Phrase(<<"(warning)", "Transformers", "not", "installed.">>)            \* line 132
InitFailed == Phrase(<<"(warning)", "Transformers", "pipeline", "failed", "to", "initialize.">>)  \* line 136
GenerationError == Phrase(<<"(warning)", "Generation", "error:", "cause">>)            \* line 154
ErrorTexts == {OpenAIError, NotInstalled, InitFailed, GenerationError}
IsErrorText(t) == t \in ErrorTexts

\* what a call gives its caller: a returned str, or an exception that propagates
Returned(t) == [raised |-> FALSE, text |-> t]
Raised == [raised |-> TRUE, text |-> <<>>]

\* lines 140-141: f"{short_system}\nUser: {prompt}\nKelly:"
ShortSystem ==
    <<Chunk("Kelly", 1), SP>> \o
    Phrase(<<"is", "a", "skeptical,", "analytical", "AI", "scientist", "poet.", "Reply",
             "as", "a", "short", "poem", "(3-8", "lines).">>)
CombinedPrompt(prompt) ==
    ShortSystem \o <<NL, Chunk("User", 1), Chunk(":", 1), SP>> \o prompt
                \o <<NL, Chunk("Kelly", 1), Chunk(":", 1)>>

\* The inputs of one script run.
Questions == {<<>>, Word("q1"), Word("q2")}          \* the text input; <<>> is ""
HostedContents ==                                     \* message.content of a completion
    { Verse,
      <<SP>> \o Join(NL, <<Verse, Verse, Verse>>) \o <<NL>> }
Continuations ==                                      \* what the pipeline adds to the prompt
    { <<>>,
      <<SP>> \o Verse,
      <<SP>> \o Join(NL, <<Verse, Verse, Verse, Verse>>),
      <<NL>> \o Join(NL, [i \in 1..9 |-> Short]) }
\* one run's outcome: of the hosted call, of the pipeline's construction, of the
\* generation.  A run calls one backend, so only that backend's part varies.
HostedOutcomes ==
    [ hostedOK : BOOLEAN, content : HostedContents,
      initOK : {TRUE}, genOK : {TRUE}, cont : {<<>>} ]
LocalOutcomes ==
    [ hostedOK : {TRUE}, content : {Verse},
      initOK : BOOLEAN, genOK : BOOLEAN, cont : Continuations ]
Outcomes == HostedOutcomes \cup LocalOutcomes

\* lines 48-62.  Line 49 is outside the try: with OpenAI = None it raises TypeError.
generate_with_openai(client, o) ==
    IF client = "None" THEN Raised
    ELSE IF o.hostedOK THEN Returned(Strip(o.content))
    ELSE Returned(OpenAIError)

\* lines 71-84: the value of the slot after the call
init_hf_model(slot, o) ==
    IF slot = "None" THEN (IF o.initOK THEN "pipeline" ELSE "None") ELSE slot

\* a local path that returns the extraction without the shape repair
LocalPoemUnrepaired(raw) == extract_poem_from_generated(raw)

\* lines 156-177 on one raw generation
LocalPoem(raw) == ShapeRepair(extract_poem_from_generated(raw), raw)

\* LocalPoem of every generation a run can see, computed once
LocalPoems ==
    [p \in Questions, c \in Continuations |-> LocalPoem(CombinedPrompt(p) \o c)]

\* lines 126-177: the result and the slot it leaves
generate_with_huggingface(prompt, avail, slot, o) ==
    IF ~avail THEN [res |-> Returned(NotInstalled), slot |-> slot]
    ELSE LET pipeline_obj == init_hf_model(slot, o)
         IN  IF pipeline_obj = "None"
             THEN [res |-> Returned(InitFailed), slot |-> pipeline_obj]
             ELSE IF ~o.genOK
             THEN [res |-> Returned(GenerationError), slot |-> pipeline_obj]
             ELSE [res |-> Returned(LocalPoems[prompt, o.cont]),
                   slot |-> pipeline_obj]

\* line 282: the condition of the router
PreferHosted(toggle, key) == toggle /\ key

\* a router that falls over to the local generator when the hosted one fails
get_kelly_reply_failover(prompt, o) ==
    IF PreferHosted(use_openai, api_key)
    THEN LET h == generate_with_openai(OpenAI, o)
             l == generate_with_huggingface(prompt, hf_available, gen_pipeline, o)
         IN  IF h.raised \/ IsErrorText(h.text)
             THEN [calls |-> <<"hosted", "local">>, res |-> l.res, slot |-> l.slot]
             ELSE [calls |-> <<"hosted">>, res |-> h, slot |-> gen_pipeline]
    ELSE LET l == generate_with_huggingface(prompt, hf_available, gen_pipeline, o)
         IN  [calls |-> <<"local">>, res |-> l.res, slot |-> l.slot]

\* lines 281-285: the calls made, in order, what the router gives back, and the slot
get_kelly_reply(prompt, o) ==
    IF PreferHosted(use_openai, api_key)
    THEN [calls |-> <<"hosted">>, res |-> generate_with_openai(OpenAI, o),
          slot |-> gen_pipeline]
    ELSE LET l == generate_with_huggingface(prompt, hf_available, gen_pipeline, o)
         IN  [calls |-> <<"local">>, res |-> l.res, slot |-> l.slot]

Turn(role, text) == [role |-> role, text |-> text]
Event(op, q, r) ==
    [op |-> op, q |-> q, calls |-> r.calls, raised |-> r.res.raised, text |-> r.res.text]
NoCall == [calls |-> <<>>, res |-> Returned(<<>>)]

\* lines 294-296: the text of the most recent user turn; <<>> stands for None
UserTurns(log) == {i \in 1..Len(log) : log[i].role = "user"}
LastUser(log) == IF UserTurns(log) = {} THEN <<>> ELSE log[SetMax(UserTurns(log))].text

Init ==
    /\ generated = <<>>
    /\ poem = <<>>
    /\ reply = <<>>
    /\ pc = "session"
    /\ messages = <<>>                    \* lines 260-261
    /\ origin = <<>>
    /\ use_openai = TRUE                  \* line 252: value=True
    /\ api_key \in BOOLEAN                \* OPENAI_API_KEY of the environment
    /\ gen_pipeline = "None"              \* line 69
    /\ hf_available \in BOOLEAN           \* lines 23-27
    /\ OpenAI \in {"client", "None"}      \* lines 17-20
    /\ ev = Idle

\* line 252: a script run after the toggle is flipped
Toggle ==
    /\ use_openai' = ~use_openai
    /\ ev' = [op |-> "sidebar"]
    /\ UNCHANGED <<generated, poem, reply, pc, messages, origin, api_key,
                   gen_pipeline, hf_available, OpenAI>>

\* lines 253-255: a script run after a key is typed; os.environ keeps it
EnterKey ==
    /\ api_key' = TRUE
    /\ ev' = [op |-> "sidebar"]
    /\ UNCHANGED <<generated, poem, reply, pc, messages, origin, use_openai,
                   gen_pipeline, hf_available, OpenAI>>

\* lines 287-291: a script run with the ask button pressed
Ask ==
    \E q \in Questions, o \in Outcomes :
        /\ Len(messages) + 2 <= MaxLog
        /\ IF q = <<>>
           THEN /\ ev' = Event("ask", q, NoCall)
                /\ UNCHANGED <<messages, origin, gen_pipeline>>
           ELSE LET r == get_kelly_reply(q, o)
                IN  /\ ev' = Event("ask", q, r)
                    /\ gen_pipeline' = r.slot
                    /\ IF r.res.raised
                       THEN UNCHANGED <<messages, origin>>
                       ELSE /\ messages' = messages \o <<Turn("user", q), Turn("kelly", r.res.text)>>
                            /\ origin' = origin \o <<"user", r.calls[1]>>
        /\ UNCHANGED <<generated, poem, reply, pc, use_openai, api_key, hf_available, OpenAI>>

\* lines 293-300: a script run with the regenerate button pressed
Regenerate ==
    \E o \in Outcomes :
        /\ Len(messages) + 1 <= MaxLog
        /\ IF messages = <<>> \/ LastUser(messages) = <<>>
           THEN /\ ev' = Event("regen", <<>>, NoCall)
                /\ UNCHANGED <<messages, origin, gen_pipeline>>
           ELSE LET r == get_kelly_reply(LastUser(messages), o)
                IN  /\ ev' = Event("regen", LastUser(messages), r)
                    /\ gen_pipeline' = r.slot
                    /\ IF r.res.raised
                       THEN UNCHANGED <<messages, origin>>
                       ELSE /\ messages' = Append(messages, Turn("kelly", r.res.text))
                            /\ origin' = Append(origin, r.calls[1])
        /\ UNCHANGED <<generated, poem, reply, pc, use_openai, api_key, hf_available, OpenAI>>

Next == Toggle \/ EnterKey \/ Ask \/ Regenerate

Spec == Init /\ [][Next]_vars

(***************************************************************************)
(* The claims.                                                             *)
(***************************************************************************)
LastTurn == messages[Len(messages)]
RouterRan == ev.op \in {"ask", "regen"} /\ ev.calls # <<>>

\* C1 (SpecExtract): whatever the raw generation, the local path's pipeline
\* (the extraction, then the shape repair) returns between 3 and 8 non-empty lines.
C1_PipelineLineCount == pc = "done" => LineCount(reply) \in 3..8

\* C1's case: the extraction is longer than 8 lines and the repair has cut it to 8.
C1_Witness == pc = "done" /\ LineCount(poem) > 8 /\ LineCount(reply) = 8

\* C2 as stated: every assistant turn of the log that is no error diagnostic has
\* between 3 and 8 non-empty lines, whichever backend produced it.
C2_EveryPoemTurnInShape ==
    \A i \in 1..Len(messages) :
        (messages[i].role = "kelly" /\ ~IsErrorText(messages[i].text))
            => LineCount(messages[i].text) \in 3..8

\* C2 as amended: every assistant turn that the local backend produced and that is
\* no error diagnostic has between 3 and 8 non-empty lines.
C2_LocalPoemTurnInShape ==
    \A i \in 1..Len(messages) :
        (messages[i].role = "kelly" /\ origin[i] = "local" /\ ~IsErrorText(messages[i].text))
            => LineCount(messages[i].text) \in 3..8

\* C2's case: the log holds a local poem that took the repair's cut to 8 lines.
C2_Witness ==
    \E i \in 1..Len(messages) :
        /\ origin[i] = "local"
        /\ ~IsErrorText(messages[i].text)
        /\ LineCount(messages[i].text) = 8

\* C3: a run of the router calls exactly one backend, the hosted generator when the
\* toggle is on and a key is present and the local generator otherwise, and what
\* that backend returns, an error diagnostic included, is the text that is appended.
C3_OneBackendNoFailover ==
    RouterRan =>
        /\ ev.calls = IF use_openai /\ api_key THEN <<"hosted">> ELSE <<"local">>
        /\ ~ev.raised => (messages # <<>> /\ LastTurn.text = ev.text)

\* C3's case: the hosted generator was selected, failed, and its diagnostic was appended.
C3_Witness ==
    /\ RouterRan
    /\ ev.calls = <<"hosted">>
    /\ ev.text = OpenAIError
    /\ messages # <<>>
    /\ LastTurn.text = OpenAIError

\* C4: a call of the hosted generator never raises, so every ask or regenerate that
\* is routed to it ends with the returned text appended as an assistant turn.
C4_HostedNeverRaises ==
    (RouterRan /\ ev.calls = <<"hosted">>) =>
        /\ ~ev.raised
        /\ messages # <<>>
        /\ LastTurn = Turn("kelly", ev.text)

\* C5: regenerate leaves an empty log unchanged; on a non-empty log it appends exactly
\* one assistant turn, generated for the question of the most recent user turn, and
\* leaves every prior turn as it was.
C5_RegenerateAppendsOne ==
    [][ev'.op = "regen" =>
        IF messages = <<>>
        THEN messages' = messages
        ELSE /\ ev'.q = LastUser(messages)
             /\ messages' = Append(messages, Turn("kelly", ev'.text))]_vars

\* C6: ask with a non-empty question appends exactly the user turn and then the
\* assistant turn with the generation result, and changes no prior turn; ask with an
\* empty question leaves the log unchanged; every user turn of the log is followed
\* by an assistant turn.
C6_AskAppendsTwo ==
    /\ [][ev'.op = "ask" =>
            IF ev'.q = <<>>
            THEN messages' = messages
            ELSE messages' = messages \o <<Turn("user", ev'.q), Turn("kelly", ev'.text)>>]_vars
    /\ [](\A i \in 1..Len(messages) :
            messages[i].role = "user" => (i < Len(messages) /\ messages[i + 1].role = "kelly"))

\* C7 (SpecExtract): no line of the extractor's output is a role-label line, on any
\* return path.
C7_NoRoleLabelInOutput ==
    pc \in {"extracted", "done"} =>
        \A i \in 1..Len(SplitLines(poem)) : ~IsRoleLabel(SplitLines(poem)[i])

\* a word is taken from a text: it is one of the text's words, or the start of one
IsWordOf(w, t) ==
    \E j \in 1..Len(Words(t)) : Take(Words(t)[j], TextLen(w)) = w

\* C8 (SpecExtract): when the raw text holds the marker, nothing that precedes the last
\* marker is in the result of the local path: the result is the canned poem or is
\* made of words of the text after the last marker.
C8_NothingBeforeMarker ==
    (pc = "done" /\ HasMarker(generated)) =>
        \/ reply = CannedPoem
        \/ \A i \in 1..Len(Words(reply)) : IsWordOf(Words(reply)[i], LastPart(generated))

\* the premise of C9: fewer than 6 words in all, and no block found by the scan
Degenerate(raw) ==
    /\ Len(Words(raw)) < 6
    /\ Hits(ContentLines(Candidate(raw))) = {}

\* C9 as stated (SpecExtract): a raw text of fewer than 6 words in which the scan finds
\* no block gives the canned poem, over however many lines it is split.
C9_DegenerateGivesCanned ==
    (pc = "done" /\ Degenerate(generated)) => reply = CannedPoem

\* C9 as amended (SpecExtract): a raw text of fewer than 6 words in which the scan finds
\* no block, and whose extraction has fewer than 3 non-empty lines, gives the canned poem.
C9_DegenerateShortGivesCanned ==
    (pc = "done" /\ Degenerate(generated) /\ LineCount(poem) < 3) => reply = CannedPoem

\* C9's case: four words on two lines; the repair replaces them by the canned poem.
C9_Witness ==
    /\ pc = "done"
    /\ Degenerate(generated)
    /\ Len(Words(generated)) = 4
    /\ LineCount(poem) = 2
    /\ reply = CannedPoem

\* a well-formed poem: 3 to 8 lines joined by single line feeds, each non-empty and
\* trimmed, none a role label, no marker, and a mean line length within [10, 120]
WellFormedPoem(t) ==
    LET ls == SplitLines(t)
    IN  /\ Len(ls) \in 3..8
        /\ t = Join(NL, ls)
        /\ \A i \in 1..Len(ls) : ls[i] # <<>> /\ Strip(ls[i]) = ls[i] /\ ~IsRoleLabel(ls[i])
        /\ ~HasMarker(t)
        /\ 10 * Len(ls) <= SumLen(ls)
        /\ SumLen(ls) <= 120 * Len(ls)

\* the first k lines of a text
FirstLines(t, k) == SubSeq(SplitLines(t), 1, k)

\* the mean line length of the first k lines is within [10, 120]
PrefixInRange(t, k) ==
    10 * k <= SumLen(FirstLines(t, k)) /\ SumLen(FirstLines(t, k)) <= 120 * k

\* C10 as stated (SpecExtract): the extractor returns a well-formed poem unchanged.
C10_WellFormedUnchanged ==
    (pc \in {"extracted", "done"} /\ WellFormedPoem(generated)) => poem = generated

\* C10 as amended (SpecExtract): of a well-formed poem the extractor returns the
\* shortest prefix of at least 3 lines whose mean line length is within [10, 120];
\* the poem is returned unchanged exactly when no shorter such prefix exists.
C10_WellFormedShortestPrefix ==
    (pc \in {"extracted", "done"} /\ WellFormedPoem(generated)) =>
        \E k \in 3..Len(SplitLines(generated)) :
            /\ poem = Join(NL, FirstLines(generated, k))
            /\ PrefixInRange(generated, k)
            /\ \A j \in 3..(k - 1) : ~PrefixInRange(generated, j)

\* C10's case: a well-formed poem of more than 3 lines, of which the extractor has
\* returned a proper prefix.
C10_Witness ==
    /\ pc = "extracted"
    /\ WellFormedPoem(generated)
    /\ LineCount(poem) < LineCount(generated)

====
